---- MODULE Spec2Model ----
(***************************************************************************)
(* Model of src/geometrical_shapes.rs: the shapes Point, Line, Triangle,   *)
(* Rectangle and Circle, their constructors, and their draw methods        *)
(* writing (x, y, color) triples into a Displayable sink.                  *)
(*                                                                         *)
(* One draw call is walked loop iteration by loop iteration.  Every shape  *)
(* is drawn twice in a row into the same sink.                             *)
(***************************************************************************)
EXTENDS Integers, Sequences, FiniteSets

\* ---------------------------------------------------------------- bounds
MaxCoord == 3
MaxTriCoord == 1
MaxRadius == 8

\* coordinates of the points of Points, Lines, Rectangles and Circles
Coords == -1 .. MaxCoord
\* coordinates of the vertices of Triangles
TriCoords == -1 .. MaxTriCoord
Radii == -1 .. MaxRadius

\* ---------------------------------------------------------------- colors
Red == <<255, 0, 0>>
Green == <<0, 255, 0>>
Blue == <<0, 0, 255>>
Yellow == <<255, 255, 0>>
Magenta == <<255, 0, 255>>
\* the colors a random() constructor is modelled to draw
RandomColors == {<<12, 34, 56>>}
PointColors == {Red} \cup RandomColors

Abs(n) == IF n < 0 THEN -n ELSE n
Min(a, b) == IF a < b THEN a ELSE b
Max(a, b) == IF a > b THEN a ELSE b

\* ---------------------------------------------------------------- shapes
PointNew(x, y) == [x |-> x, y |-> y, color |-> Red]

PointRandom(x, y, c) == [x |-> x, y |-> y, color |-> c]

LineNew(start, end) ==
    [kind |-> "line", start |-> start, end |-> end, color |-> Green]

LineRandom(xa, ya, xb, yb, c) ==
    [kind |-> "line", start |-> PointNew(xa, ya), end |-> PointNew(xb, yb),
     color |-> c]

TriangleNew(p1, p2, p3) ==
    [kind |-> "triangle", p1 |-> p1, p2 |-> p2, p3 |-> p3, color |-> Blue]

\* Rectangle::new storing the corners as given
RectangleNewAsGiven(p1, p2) ==
    [kind |-> "rectangle", top_left |-> PointNew(p1.x, p1.y),
     bottom_right |-> PointNew(p2.x, p2.y), color |-> Yellow]

RectangleNew(p1, p2) ==
    [kind |-> "rectangle",
     top_left |-> PointNew(Min(p1.x, p2.x), Min(p1.y, p2.y)),
     bottom_right |-> PointNew(Max(p1.x, p2.x), Max(p1.y, p2.y)),
     color |-> Yellow]

CircleNew(center, radius) ==
    [kind |-> "circle", center |-> center, radius |-> radius,
     color |-> Magenta]

CircleRandom(x, y, radius, c) ==
    [kind |-> "circle", center |-> PointNew(x, y), radius |-> radius,
     color |-> c]

\* The points a caller can hand to a constructor.  All points handed to one
\* constructor call carry the same color here.
ArgPoints(c) == {PointRandom(x, y, c) : x \in Coords, y \in Coords}
TriPoints(c) == {PointRandom(x, y, c) : x \in TriCoords, y \in TriCoords}

\* ---------------------------------------------------------------- sink
\* The sink is a pixel-recording map from the coordinates that hold a color
\* to that color; it accepts every coordinate.
\* Displayable::display with overwrite semantics
Display(cv, x, y, color) ==
    [p \in (DOMAIN cv) \cup {<<x, y>>} |->
        IF p = <<x, y>> THEN color ELSE cv[p]]

\* the write requests of ws applied to cv in order
RECURSIVE DisplayAll(_, _)
DisplayAll(cv, ws) ==
    IF ws = <<>> THEN cv
    ELSE DisplayAll(Display(cv, ws[1].x, ws[1].y, ws[1].color), Tail(ws))

\* the contents the sink can have before the first draw call: empty, or
\* a two-colored pattern over the region the shapes' points come from
InitialCanvases ==
    { [p \in {} |-> Red],
      [p \in Coords \X Coords |->
          IF (p[1] + p[2]) % 2 = 0 THEN Magenta ELSE Blue] }

Write(x, y, color) == [x |-> x, y |-> y, color |-> color]

\* ---------------------------------------------------------------- Line
\* locals of draw_line before the loop
draw_line_init(l) ==
    LET x0 == l.start.x
        y0 == l.start.y
        x1 == l.end.x
        y1 == l.end.y
        dx == Abs(x1 - x0)
        dy == Abs(y1 - y0)
    IN  [x0 |-> x0, y0 |-> y0, x1 |-> x1, y1 |-> y1, dx |-> dx, dy |-> dy,
         sx |-> IF x0 < x1 THEN 1 ELSE -1,
         sy |-> IF y0 < y1 THEN 1 ELSE -1,
         err |-> dx - dy, color |-> l.color]

\* a break test that fires as soon as one axis has arrived
AtEndEitherAxis(w) == w.x0 = w.x1 \/ w.y0 = w.y1

\* the break test of the loop
AtEnd(w) == w.x0 = w.x1 /\ w.y0 = w.y1

\* a step of the loop that moves y whenever it moves x
draw_line_step_both(w) ==
    LET e2 == 2 * w.err
        a == IF e2 > -w.dy
             THEN [w EXCEPT !.err = w.err - w.dy, !.x0 = w.x0 + w.sx]
             ELSE w
    IN  [a EXCEPT !.err = a.err + a.dx, !.y0 = a.y0 + a.sy]

\* a step of the loop whose second test is an else branch of the first
draw_line_step_else(w) ==
    LET e2 == 2 * w.err
    IN  IF e2 > -w.dy
        THEN [w EXCEPT !.err = w.err - w.dy, !.x0 = w.x0 + w.sx]
        ELSE IF e2 < w.dx
             THEN [w EXCEPT !.err = w.err + w.dx, !.y0 = w.y0 + w.sy]
             ELSE w

\* the part of the loop body after the break test
draw_line_step(w) ==
    LET e2 == 2 * w.err
        a == IF e2 > -w.dy
             THEN [w EXCEPT !.err = w.err - w.dy, !.x0 = w.x0 + w.sx]
             ELSE w
    IN  IF e2 < w.dx
        THEN [a EXCEPT !.err = a.err + a.dx, !.y0 = a.y0 + a.sy]
        ELSE a

\* the whole sequence of writes of one draw_line call
RECURSIVE Walk(_)
Walk(w) ==
    IF AtEnd(w) THEN <<Write(w.x0, w.y0, w.color)>>
    ELSE <<Write(w.x0, w.y0, w.color)>> \o Walk(draw_line_step(w))

LineWrites(l) == Walk(draw_line_init(l))

\* ---------------------------------------------------------------- composites
Recolor(l, c) == [l EXCEPT !.color = c]

\* the three lines with the third one walked from p1 to p3
TriangleLinesP1P3(t) ==
    << Recolor(LineNew(t.p1, t.p2), t.color),
       Recolor(LineNew(t.p2, t.p3), t.color),
       Recolor(LineNew(t.p1, t.p3), t.color) >>

\* the three lines Triangle::draw draws, in order
TriangleLines(t) ==
    << Recolor(LineNew(t.p1, t.p2), t.color),
       Recolor(LineNew(t.p2, t.p3), t.color),
       Recolor(LineNew(t.p3, t.p1), t.color) >>

\* the four lines with the last one ending at bottom_right
RectangleLinesOpen(r) ==
    LET top_right == PointNew(r.bottom_right.x, r.top_left.y)
        bottom_left == PointNew(r.top_left.x, r.bottom_right.y)
    IN  << Recolor(LineNew(r.top_left, top_right), r.color),
           Recolor(LineNew(top_right, r.bottom_right), r.color),
           Recolor(LineNew(r.bottom_right, bottom_left), r.color),
           Recolor(LineNew(bottom_left, r.bottom_right), r.color) >>

\* the four lines Rectangle::draw draws, in order
RectangleLines(r) ==
    LET top_right == PointNew(r.bottom_right.x, r.top_left.y)
        bottom_left == PointNew(r.top_left.x, r.bottom_right.y)
    IN  << Recolor(LineNew(r.top_left, top_right), r.color),
           Recolor(LineNew(top_right, r.bottom_right), r.color),
           Recolor(LineNew(r.bottom_right, bottom_left), r.color),
           Recolor(LineNew(bottom_left, r.top_left), r.color) >>

\* the lines a draw call of shape s walks, in order
LinesOf(s) ==
    CASE s.kind = "line" -> <<s>>
      [] s.kind = "triangle" -> TriangleLines(s)
      [] s.kind = "rectangle" -> RectangleLines(s)

\* ---------------------------------------------------------------- Circle
\* the 8 writes with the second one not mirrored in x
OctantsNoMirror(cx, cy, x, y, color) ==
    << Write(cx + x, cy + y, color), Write(cx + x, cy + y, color),
       Write(cx + x, cy - y, color), Write(cx - x, cy - y, color),
       Write(cx + y, cy + x, color), Write(cx - y, cy + x, color),
       Write(cx + y, cy - x, color), Write(cx - y, cy - x, color) >>

\* the 8 writes with the last one repeating the one before
OctantsTypo(cx, cy, x, y, color) ==
    << Write(cx + x, cy + y, color), Write(cx - x, cy + y, color),
       Write(cx + x, cy - y, color), Write(cx - x, cy - y, color),
       Write(cx + y, cy + x, color), Write(cx - y, cy + x, color),
       Write(cx + y, cy - x, color), Write(cx + y, cy - x, color) >>

\* the 8 writes of one iteration of the loop of draw_circle
Octants(cx, cy, x, y, color) ==
    << Write(cx + x, cy + y, color), Write(cx - x, cy + y, color),
       Write(cx + x, cy - y, color), Write(cx - x, cy - y, color),
       Write(cx + y, cy + x, color), Write(cx - y, cy + x, color),
       Write(cx + y, cy - x, color), Write(cx - y, cy - x, color) >>

VARIABLES
    shape,      \* the shape under draw, as its constructor built it
    args,       \* the points handed to the constructor
    pc,         \* "start", "line", "circle" or "done"
    pass,       \* 1 or 2: which of the two successive draw calls runs
    pending,    \* the lines the running draw call has still to walk
    w,          \* locals of the running draw_line call
    c,          \* locals of the running draw_circle call
    writes,     \* the display calls of the running draw call, in order
    canvas,     \* the sink: coordinate -> color
    first       \* the sink as the first draw call left it

vars == <<shape, args, pc, pass, pending, w, c, writes, canvas, first>>

\* locals of draw_circle before the loop, y carried over from the last call
draw_circle_init_stale(s) ==
    [cx |-> s.center.x, cy |-> s.center.y, r |-> s.radius,
     x |-> 0, y |-> IF pass = 1 THEN s.radius ELSE c.y,
     d |-> 1 - s.radius, color |-> s.color]

\* locals of draw_circle before the loop
draw_circle_init(s) ==
    [cx |-> s.center.x, cy |-> s.center.y, r |-> s.radius,
     x |-> 0, y |-> s.radius, d |-> 1 - s.radius, color |-> s.color]

\* the loop body after the writes, y never decremented
draw_circle_step_keep_y(k) ==
    IF k.d < 0
    THEN [k EXCEPT !.d = k.d + 2 * k.x + 3, !.x = k.x + 1]
    ELSE [k EXCEPT !.d = k.d + 2 * (k.x - k.y) + 5, !.x = k.x + 1]

\* the loop body after the writes
draw_circle_step(k) ==
    IF k.d < 0
    THEN [k EXCEPT !.d = k.d + 2 * k.x + 3, !.x = k.x + 1]
    ELSE [k EXCEPT !.d = k.d + 2 * (k.x - k.y) + 5, !.y = k.y - 1,
                   !.x = k.x + 1]

NoLine == draw_line_init(LineNew(PointNew(0, 0), PointNew(0, 0)))
NoCircle == draw_circle_init(CircleNew(PointNew(0, 0), 0))

\* ---------------------------------------------------------------- Init
Shapes ==
    UNION { {[shape |-> p, args |-> <<>>] : p \in
                {[kind |-> "point", at |-> q] : q \in ArgPoints(pcol)}}
            \cup
            {[shape |-> LineNew(p, q), args |-> <<p, q>>] :
                p \in ArgPoints(pcol), q \in ArgPoints(pcol)}
            \cup
            {[shape |-> TriangleNew(p, q, r), args |-> <<p, q, r>>] :
                p \in TriPoints(pcol), q \in TriPoints(pcol),
                r \in TriPoints(pcol)}
            \cup
            {[shape |-> RectangleNew(p, q), args |-> <<p, q>>] :
                p \in ArgPoints(pcol), q \in ArgPoints(pcol)}
            \cup
            {[shape |-> CircleNew(p, r), args |-> <<p>>] :
                p \in ArgPoints(pcol), r \in Radii}
          : pcol \in PointColors }
    \cup
    {[shape |-> LineRandom(xa, ya, xb, yb, col), args |-> <<>>] :
        xa \in Coords, ya \in Coords, xb \in Coords, yb \in Coords,
        col \in RandomColors}
    \cup
    {[shape |-> CircleRandom(x, y, r, col), args |-> <<>>] :
        x \in Coords, y \in Coords, r \in Radii \ {-1},
        col \in RandomColors}

Init ==
    /\ \E s \in Shapes : shape = s.shape /\ args = s.args
    /\ pc = "start"
    /\ pass = 1
    /\ pending = <<>>
    /\ w = NoLine
    /\ c = NoCircle
    /\ writes = <<>>
    /\ canvas \in InitialCanvases
    /\ first = canvas

\* ---------------------------------------------------------------- actions
\* impl Drawable for Point: draw
DrawPoint ==
    /\ pc = "start" /\ shape.kind = "point"
    /\ writes' = <<Write(shape.at.x, shape.at.y, shape.at.color)>>
    /\ canvas' = Display(canvas, shape.at.x, shape.at.y, shape.at.color)
    /\ pc' = "done"
    /\ UNCHANGED <<shape, args, pass, pending, w, c, first>>

\* entry of a draw call that walks lines: the first line's locals are set
\* up, the others wait in pending
StartLines(ls) ==
    /\ w' = draw_line_init(Head(ls))
    /\ pending' = Tail(ls)
    /\ pc' = "line"
    /\ UNCHANGED <<shape, args, pass, c, writes, canvas, first>>

\* impl Drawable for Line: draw
DrawLine == pc = "start" /\ shape.kind = "line" /\ StartLines(<<shape>>)

\* impl Drawable for Triangle: draw
DrawTriangle ==
    pc = "start" /\ shape.kind = "triangle" /\ StartLines(TriangleLines(shape))

\* impl Drawable for Rectangle: draw
DrawRectangle ==
    pc = "start" /\ shape.kind = "rectangle"
        /\ StartLines(RectangleLines(shape))

\* one iteration of the loop of draw_line; on break the next pending line
\* of the enclosing draw call starts, or the draw call returns
LineLoop ==
    /\ pc = "line"
    /\ writes' = Append(writes, Write(w.x0, w.y0, w.color))
    /\ canvas' = Display(canvas, w.x0, w.y0, w.color)
    /\ IF AtEnd(w)
       THEN IF pending = <<>>
            THEN pc' = "done" /\ UNCHANGED <<w, pending>>
            ELSE /\ w' = draw_line_init(Head(pending))
                 /\ pending' = Tail(pending)
                 /\ pc' = "line"
       ELSE w' = draw_line_step(w) /\ UNCHANGED <<pc, pending>>
    /\ UNCHANGED <<shape, args, pass, c, first>>

\* impl Drawable for Circle: draw, up to the loop
DrawCircle ==
    /\ pc = "start" /\ shape.kind = "circle"
    /\ c' = draw_circle_init(shape)
    /\ pc' = "circle"
    /\ UNCHANGED <<shape, args, pass, pending, w, writes, canvas, first>>

\* one iteration of the loop of draw_circle
CircleLoop ==
    /\ pc = "circle" /\ c.x <= c.y
    /\ LET o == Octants(c.cx, c.cy, c.x, c.y, c.color)
       IN  writes' = writes \o o /\ canvas' = DisplayAll(canvas, o)
    /\ c' = draw_circle_step(c)
    /\ UNCHANGED <<shape, args, pc, pass, pending, w, first>>

\* the loop test of draw_circle fails: the draw call returns
CircleExit ==
    /\ pc = "circle" /\ ~(c.x <= c.y)
    /\ pc' = "done"
    /\ UNCHANGED <<shape, args, pass, pending, w, c, writes, canvas, first>>

\* the caller draws the same shape again into the same sink
Redraw ==
    /\ pc = "done" /\ pass = 1
    /\ pass' = 2
    /\ first' = canvas
    /\ writes' = <<>>
    /\ pc' = "start"
    /\ UNCHANGED <<shape, args, pending, w, c, canvas>>

Next ==
    \/ DrawPoint
    \/ DrawLine
    \/ DrawTriangle
    \/ DrawRectangle
    \/ LineLoop
    \/ DrawCircle
    \/ CircleLoop
    \/ CircleExit
    \/ Redraw

Spec == Init /\ [][Next]_vars

\* ---------------------------------------------------------------- helpers
Coord(wr) == <<wr.x, wr.y>>
PixelSet(ws) == {Coord(ws[i]) : i \in 1 .. Len(ws)}
Reverse(ws) == [i \in 1 .. Len(ws) |-> ws[Len(ws) + 1 - i]]
Swap(l) == [l EXCEPT !.start = l.end, !.end = l.start]

RECURSIVE Concat(_)
Concat(ss) == IF ss = <<>> THEN <<>> ELSE Head(ss) \o Concat(Tail(ss))

\* the writes of a whole draw call of a Line, Triangle or Rectangle
ShapeWrites(s) ==
    Concat([i \in 1 .. Len(LinesOf(s)) |-> LineWrites(LinesOf(s)[i])])

\* round(sqrt(n)) for a natural n
RoundSqrt(n) ==
    CHOOSE k \in 0 .. n :
        /\ (k = 0 \/ (2 * k - 1) * (2 * k - 1) <= 4 * n)
        /\ 4 * n < (2 * k + 1) * (2 * k + 1)

IsLine == shape.kind = "line"
LineDx == Abs(shape.end.x - shape.start.x)
LineDy == Abs(shape.end.y - shape.start.y)

\* ---------------------------------------------------------------- C1
\* C1 as stated: a Line and the Line with start and end swapped write the
\* same set of coordinates, one in the reverse order of the other.
C1_Original ==
    (pc = "done" /\ IsLine) =>
        LET back == LineWrites(Swap(shape))
        IN  PixelSet(back) = PixelSet(writes) /\ back = Reverse(writes)

\* C1 amended: the swapped Line emits as many writes, its k-th write is the
\* point reflection start + end - p of the k-th write of the Line, and for
\* horizontal, vertical and diagonal Lines the two write sequences are
\* reverses of each other over the same set of coordinates.
C1_Reflection ==
    (pc = "done" /\ IsLine) =>
        LET back == LineWrites(Swap(shape))
        IN  /\ Len(back) = Len(writes)
            /\ \A k \in 1 .. Len(writes) :
                  /\ back[k].x = shape.start.x + shape.end.x - writes[k].x
                  /\ back[k].y = shape.start.y + shape.end.y - writes[k].y
                  /\ back[k].color = writes[k].color
            /\ (LineDx = 0 \/ LineDy = 0 \/ LineDx = LineDy) =>
                  /\ back = Reverse(writes)
                  /\ PixelSet(back) = PixelSet(writes)

C1_Witness ==
    /\ pc = "done" /\ IsLine
    /\ LineDx = 2 /\ LineDy = 1
    /\ PixelSet(LineWrites(Swap(shape))) # PixelSet(writes)

\* ---------------------------------------------------------------- C2
\* C2: drawing a Line never emits more than max(dx, dy) + 1 writes, and
\* when the draw call has returned it has emitted exactly that many, the
\* first at start, the last at end, no coordinate twice.
C2_LineWrites ==
    IsLine =>
        /\ pc = "line" => Len(writes) <= Max(LineDx, LineDy)
        /\ pc = "done" =>
              /\ Len(writes) = Max(LineDx, LineDy) + 1
              /\ Coord(writes[1]) = <<shape.start.x, shape.start.y>>
              /\ Coord(writes[Len(writes)]) = <<shape.end.x, shape.end.y>>
              /\ Cardinality(PixelSet(writes)) = Len(writes)
              /\ (shape.start.x = shape.end.x /\ shape.start.y = shape.end.y)
                    => writes = <<Write(shape.start.x, shape.start.y,
                                        shape.color)>>

C2_Witness ==
    /\ pc = "done" /\ IsLine
    /\ LineDx = 2 /\ LineDy = 1
    /\ Len(writes) = 3

\* ---------------------------------------------------------------- C10
\* C10: while a Line is drawn the current position stays inside the
\* bounding box of its two endpoints, and so does every write.
InBox(x, y) ==
    /\ Min(shape.start.x, shape.end.x) <= x
    /\ x <= Max(shape.start.x, shape.end.x)
    /\ Min(shape.start.y, shape.end.y) <= y
    /\ y <= Max(shape.start.y, shape.end.y)

C10_WalkInBox ==
    (IsLine /\ pc \in {"line", "done"}) =>
        /\ InBox(w.x0, w.y0)
        /\ \A i \in 1 .. Len(writes) : InBox(writes[i].x, writes[i].y)

C10_Witness ==
    /\ IsLine /\ pc = "line"
    /\ LineDx = 2 /\ LineDy = 1
    /\ Len(writes) = 2

\* ---------------------------------------------------------------- C3
IsCircle == shape.kind = "circle" /\ shape.radius >= 0

\* squared distance of a write from the center of the Circle
Dist2(wr) ==
    (wr.x - shape.center.x) * (wr.x - shape.center.x)
        + (wr.y - shape.center.y) * (wr.y - shape.center.y)

\* C3: every write of a Circle of radius r >= 0 lies at a distance from the
\* center whose rounded value is r - 1, r or r + 1.
C3_RadiusBound ==
    IsCircle =>
        \A i \in 1 .. Len(writes) :
            Abs(RoundSqrt(Dist2(writes[i])) - shape.radius) <= 1

C3_Witness ==
    /\ IsCircle /\ pc = "done" /\ shape.radius >= 4
    /\ \E i \in 1 .. Len(writes) :
          Dist2(writes[i]) # shape.radius * shape.radius

\* ---------------------------------------------------------------- C4
\* C4: the set of coordinates a Circle of radius r >= 0 has written when
\* draw returns is closed under reflection through the vertical and the
\* horizontal axis through the center.
C4_Reflections ==
    (IsCircle /\ pc = "done") =>
        \A p \in PixelSet(writes) :
            /\ <<2 * shape.center.x - p[1], p[2]>> \in PixelSet(writes)
            /\ <<p[1], 2 * shape.center.y - p[2]>> \in PixelSet(writes)

C4_Witness ==
    /\ IsCircle /\ pc = "done" /\ shape.radius >= 4
    /\ \E p \in PixelSet(writes) :
          /\ p[1] # shape.center.x /\ p[2] # shape.center.y
          /\ Abs(p[1] - shape.center.x) # Abs(p[2] - shape.center.y)

\* ---------------------------------------------------------------- C9
\* the k-th iteration's 8 writes, and the loop's x and y they were made at
Block(k) == SubSeq(writes, 8 * k - 7, 8 * k)
BlockX(k) == Block(k)[1].x - shape.center.x
BlockY(k) == Block(k)[1].y - shape.center.y
Blocks == 1 .. (Len(writes) \div 8)

\* C9 as stated: in an iteration with x # y the 8 writes go to 8 pairwise
\* distinct coordinates.
C9_Original ==
    IsCircle =>
        \A k \in Blocks :
            BlockX(k) # BlockY(k) => Cardinality(PixelSet(Block(k))) = 8

\* C9 amended: in an iteration with x # y and x # 0 the 8 writes go to 8
\* pairwise distinct coordinates; two of them coincide only where x = y or
\* x = 0.
C9_DistinctOctants ==
    IsCircle =>
        \A k \in Blocks :
            /\ 0 <= BlockX(k) /\ BlockX(k) <= BlockY(k)
            /\ Len(Block(k)) = 8
            /\ (BlockX(k) # BlockY(k) /\ BlockX(k) # 0)
                  <=> Cardinality(PixelSet(Block(k))) = 8

C9_Witness ==
    /\ IsCircle /\ pc = "done"
    /\ \E k \in Blocks :
          /\ BlockX(k) # BlockY(k) /\ BlockX(k) # 0
          /\ Cardinality(PixelSet(Block(k))) = 8
    /\ \E k \in Blocks :
          /\ BlockX(k) # BlockY(k) /\ BlockX(k) = 0
          /\ Cardinality(PixelSet(Block(k))) = 4

\* ---------------------------------------------------------------- C5
IsRectangle == shape.kind = "rectangle"

\* C5: the Rectangle built from (p1, p2) is the one built from (p2, p1)
\* and from either order of the other diagonal of the same box; its
\* corners are (min x, min y) and (max x, max y); and its draw call emits
\* the sequence of writes of those Rectangles' draw calls.
C5_CornerOrder ==
    (IsRectangle /\ pc = "done") =>
        LET p1 == args[1]
            p2 == args[2]
            q1 == PointRandom(p1.x, p2.y, p1.color)
            q2 == PointRandom(p2.x, p1.y, p2.color)
            others == {RectangleNew(p2, p1), RectangleNew(q1, q2),
                       RectangleNew(q2, q1)}
        IN  /\ shape.top_left.x = Min(p1.x, p2.x)
            /\ shape.top_left.y = Min(p1.y, p2.y)
            /\ shape.bottom_right.x = Max(p1.x, p2.x)
            /\ shape.bottom_right.y = Max(p1.y, p2.y)
            /\ \A o \in others :
                  /\ o.top_left = shape.top_left
                  /\ o.bottom_right = shape.bottom_right
                  /\ ShapeWrites(o) = writes

C5_Witness ==
    /\ IsRectangle /\ pc = "done"
    /\ args[1].x > args[2].x /\ args[1].y > args[2].y
    /\ Len(writes) > 4

\* ---------------------------------------------------------------- C6
\* the boundary pixels of the box [xa .. xb] x [ya .. yb]
Perimeter(xa, xb, ya, yb) ==
    {<<x, y>> \in (xa .. xb) \X (ya .. yb) :
        x \in {xa, xb} \/ y \in {ya, yb}}

\* C6: the coordinates a Rectangle built from p1, p2 has written when draw
\* returns are exactly the perimeter of the box spanned by p1 and p2.
C6_Perimeter ==
    (IsRectangle /\ pc = "done") =>
        PixelSet(writes) =
            Perimeter(Min(args[1].x, args[2].x), Max(args[1].x, args[2].x),
                      Min(args[1].y, args[2].y), Max(args[1].y, args[2].y))

C6_Witness ==
    /\ IsRectangle /\ pc = "done"
    /\ Abs(args[1].x - args[2].x) = 2 /\ Abs(args[1].y - args[2].y) = 2
    /\ Cardinality(PixelSet(writes)) = 8

\* ---------------------------------------------------------------- C7
IsTriangle == shape.kind = "triangle"

\* C7: the coordinates a Triangle has written when draw returns are those
\* of the three Lines p1 -> p2, p2 -> p3, p3 -> p1 drawn on their own, and
\* every write carries the Triangle's color.
C7_ThreeLines ==
    (IsTriangle /\ pc = "done") =>
        /\ PixelSet(writes) =
              PixelSet(LineWrites(LineNew(args[1], args[2])))
                \cup PixelSet(LineWrites(LineNew(args[2], args[3])))
                \cup PixelSet(LineWrites(LineNew(args[3], args[1])))
        /\ \A i \in 1 .. Len(writes) : writes[i].color = shape.color

C7_Witness ==
    /\ IsTriangle /\ pc = "done"
    /\ args[1].color # Red
    /\ Abs(args[3].x - args[1].x) = 2 /\ Abs(args[3].y - args[1].y) = 1
    /\ Cardinality({Coord(args[i]) : i \in 1 .. 3}) = 3

\* ---------------------------------------------------------------- C8
\* C8: when the second of two successive draw calls of a shape has returned,
\* the sink holds what it held after the first.
C8_Idempotent == (pc = "done" /\ pass = 2) => canvas = first

C8_Witness ==
    /\ pc = "done" /\ pass = 2
    /\ Len(writes) > Cardinality(PixelSet(writes))
    /\ \E p \in DOMAIN canvas : canvas[p] \notin {shape.color}

====
